---- MODULE Spec2Model ----
(***************************************************************************)
(* State-machine model of src/server.js: an Express service that holds one *)
(* wallet key, answers /withdraw and four treasury transfer endpoints by   *)
(* signing and broadcasting a plain value transfer through an ethers.js    *)
(* provider, answers read-only queries about the wallet and about          *)
(* transactions, and keeps an in-memory earnings counter.                  *)
(*                                                                         *)
(* Every handler is an async function: the code between two awaits runs    *)
(* without interruption (one action of the model), and at every await      *)
(* other handlers and the chain may take steps.                            *)
(*                                                                         *)
(* Units.  Ether amounts are integers counted in 0.001 ETH (the real wei   *)
(* scale, 10^18, does not fit TLC's 32-bit integers).  A JavaScript       *)
(* number is a binary float; it is modelled as an integer rounded to       *)
(* MantissaBits significant bits (53 in IEEE-754 doubles), ties to even,   *)
(* or NaN.  Gas prices are quoted per GasLimit units of gas.               *)
(***************************************************************************)
EXTENDS Integers, Sequences, FiniteSets, TLC

\* ------------------------------------------------------------------ bounds
\* Number of HTTP requests the service receives in one run.
MaxReq == 2
\* Significant bits of the modelled float (scaled down from 53).
MantissaBits == 3
\* Blocks the network adds without a transaction of the wallet.
MaxHeight == 2

\* --------------------------------------------------------- program constants
GasLimit == 21000
ChainId == 1
\* 0.002 ETH and 0.01 ETH in units of 0.001 ETH.
GasBuffer == 2
DefaultAmount == 10
UsdPerEth == 3450

Reqs == 1..MaxReq

\* ------------------------------------------------------------- addresses
\* An address string is an account and a spelling of it: "checksum" is the
\* mixed-case form ethers derives for wallet.address, "lower" the all
\* lower-case form, "mixed" a mixed-case form whose checksum is wrong.
\* NoAddr is an absent (undefined / falsy) body field and BadAddr a truthy
\* value that is no address.
Addr(a, f) == [acct |-> a, form |-> f]
NoAddr == Addr("none", "none")
BadAddr == Addr("junk", "junk")
WalletAddress == Addr("W", "checksum")
AddressInputs ==
    {NoAddr, BadAddr, WalletAddress, Addr("W", "lower"), Addr("W", "mixed"),
     Addr("T", "lower")}

\* String.prototype.toLowerCase on an address string.
ToLowerCase(a) ==
    IF a.form \in {"checksum", "mixed"} THEN Addr(a.acct, "lower") ELSE a

\* ethers.isAddress: a 0x-prefixed 40-digit hex string, all of one case or
\* correctly checksummed.
IsAddress(a) == a.form \in {"checksum", "lower"}

\* JavaScript truthiness of a body field holding an address.
Truthy(a) == a # NoAddr

\* a || b on address-valued fields.
OrAddr(a, b) == IF Truthy(a) THEN a ELSE b

\* ---------------------------------------------------------------- numbers
NaN == [nan |-> TRUE, v |-> 0]
Num(x) == [nan |-> FALSE, v |-> x]

Abs(x) == IF x < 0 THEN -x ELSE x

\* 2^k
RECURSIVE Pow2(_)
Pow2(k) == IF k <= 0 THEN 1 ELSE 2 * Pow2(k - 1)

\* Number of binary digits of x > 0.
RECURSIVE BitLen(_)
BitLen(x) == IF x <= 0 THEN 0 ELSE 1 + BitLen(x \div 2)

\* Nearest multiple of q to x >= 0, ties to the even multiple.
RoundToEven(x, q) ==
    LET n == x \div q
        rem == x % q
    IN  IF 2 * rem < q THEN n * q
        ELSE IF 2 * rem > q THEN (n + 1) * q
        ELSE IF n % 2 = 0 THEN n * q ELSE (n + 1) * q

\* The float nearest to the real number x.
Fl(x) ==
    LET m == Abs(x)
        q == Pow2(BitLen(m) - MantissaBits)
        r == RoundToEven(m, q)
    IN  IF x < 0 THEN -r ELSE r

\* A body field holding an amount: absent or falsy ("falsy"), a truthy
\* string that is no number ("text"), or a decimal string ("dec").
Falsy == [txt |-> "falsy", v |-> 0]
Text == [txt |-> "text", v |-> 0]
Dec(x) == [txt |-> "dec", v |-> x]

\* JavaScript truthiness of an amount field (the string "0" is truthy).
TruthyAmt(a) == a.txt # "falsy"

\* parseFloat
ParseFloat(a) == IF a.txt = "dec" THEN Num(Fl(a.v)) ELSE NaN

\* a < b on floats: false when either side is NaN.
FLt(a, b) == ~a.nan /\ ~b.nan /\ a.v < b.v

\* a + b on floats.
FAdd(a, b) == IF a.nan \/ b.nan THEN NaN ELSE Num(Fl(a.v + b.v))

\* a || b on floats: NaN and 0 are falsy.
FOr(a, b) == IF a.nan \/ a.v = 0 THEN b ELSE a

\* ethers.formatEther: the exact decimal string of a balance.
FormatEther(b) == Dec(b)

\* ethers.parseEther on a string: throws unless it is a decimal string.
ParseEtherOk(a) == a.txt = "dec"
ParseEther(a) == a.v

\* Number.prototype.toString of a float: "NaN" parses as no decimal.
FToString(f) == IF f.nan THEN Text ELSE Dec(f.v)


\* ------------------------------------------------------------------ state
VARIABLES
    key,             \* process.env.BACKEND_PRIVATE_KEY: "absent", "malformed", "valid"
    phase,           \* the process: "boot", "listening", "crashed"
    req,             \* one record per HTTP request (its handler's closure)
    earningsBalance, \* the in-memory earnings counter
    chainBalance,    \* the wallet's balance on the chain
    chainTxs,        \* transactions of the wallet the node accepted, by nonce
    mined,           \* how many of chainTxs are included in a block
    gasPriceNow,     \* the node's current gas price
    height,          \* the number of the chain's newest block
    blockOf          \* the block numbers of the mined transactions of chainTxs

vars == <<key, phase, req, earningsBalance, chainBalance, chainTxs, mined,
          gasPriceNow, height, blockOf>>

chainVars == <<chainBalance, chainTxs, mined, gasPriceNow, height, blockOf>>

KeyInputs == {"absent", "malformed", "valid"}
GasPrices == {1, 2}
InitialBalances == {0, 16}

\* A transaction intent (the object handed to wallet.signTransaction).
NoTx == [to |-> NoAddr, value |-> 0, nonce |-> -1, gasLimit |-> 0,
         gasPrice |-> 0, chainId |-> 0]

\* The other fields of a JSON answer (those of the ledger and of the
\* read-only queries).
NoBody == [kind |-> "none"]

\* An HTTP response: status, JSON error text, echoed balance, whether the
\* body is JSON, the transaction hash of a success, and the remaining fields.
NoResp == [status |-> 0, error |-> "", balance |-> -1, json |-> TRUE, hash |-> 0,
           body |-> NoBody]
ErrorResp(status, msg) == [NoResp EXCEPT !.status = status, !.error = msg]
BalanceResp(msg, bal) == [NoResp EXCEPT !.status = 400, !.error = msg, !.balance = bal]
SuccessResp(h) == [NoResp EXCEPT !.status = 200, !.hash = h]

IdleReq == [ep |-> "none", pc |-> "idle", to |-> NoAddr, amountETH |-> Falsy,
            ethAmount |-> NaN, percentage |-> NaN, usesPercentage |-> FALSE,
            balance |-> -1, gasPrice |-> 0,
            tx |-> NoTx, signed |-> FALSE, log |-> <<>>, resp |-> NoResp,
            raised |-> FALSE, amountUSD |-> Falsy, hash |-> 0, found |-> NoBody,
            receipt |-> NoBody, nonce |-> -1]

\* The calls a handler awaits on the provider (the Chain Client).
ChainCalls == {"getBalance", "getFeeData", "getTransactionCount",
               "broadcastTransaction", "wait", "getTransactionCountLatest",
               "getTransaction", "getTransactionReceipt", "confirmations",
               "estimateGas"}

TransferEndpoints == {"withdraw", "convert", "fund", "treasury", "claim"}

\* GET /balance, GET /transaction/:hash, POST /estimate-gas.
QueryEndpoints == {"balance", "transaction", "estimate"}

Init ==
    /\ key \in KeyInputs
    /\ phase = "boot"
    /\ req = [r \in Reqs |-> IdleReq]
    /\ earningsBalance = 0
    /\ chainBalance \in InitialBalances
    /\ chainTxs = <<>>
    /\ mined = 0
    /\ gasPriceNow \in GasPrices
    /\ height = 0
    /\ blockOf = <<>>

\* ---------------------------------------------------------------- startup
\* Mutant: the wallet is built without a usable key.
WalletConstructsWithoutKey == key \in KeyInputs

\* new ethers.Wallet(PRIVATE_KEY, provider) throws on an absent or malformed
\* key; the exception ends the process before app.listen is reached.
WalletConstructs == key = "valid"

Startup ==
    /\ phase = "boot"
    /\ phase' = IF WalletConstructs THEN "listening" ELSE "crashed"
    /\ UNCHANGED <<key, req, earningsBalance, chainVars>>

\* A request reaches its handler only while the process listens.  Requests
\* take the slots in order.
Arrives(r) ==
    /\ phase = "listening"
    /\ req[r].pc = "idle"
    /\ \A s \in Reqs : s < r => req[s].pc # "idle"

\* The handler issues a call and suspends at the await.
Call(q, name) == [q EXCEPT !.pc = name, !.log = Append(@, name)]

\* res.status(..).json(..): the handler answers and returns.
Respond(q, resp) == [q EXCEPT !.pc = "done", !.resp = resp]

\* An exception reaches the handler's catch block.
Catch(q, msg) == [Respond(q, ErrorResp(500, msg)) EXCEPT !.raised = TRUE]

\* --------------------------------------------------------------- /withdraw
\* Mutant: the self-transfer check compares the strings as they are.
WithdrawValidateCaseSensitive(toAddress, amountETH) ==
    LET q == [IdleReq EXCEPT !.ep = "withdraw", !.to = toAddress,
                             !.amountETH = amountETH]
    IN  IF ~Truthy(toAddress) \/ ~TruthyAmt(amountETH)
          THEN Respond(q, ErrorResp(400, "Missing parameters"))
        ELSE IF ~IsAddress(toAddress)
          THEN Respond(q, ErrorResp(400, "Invalid address"))
        ELSE IF toAddress = WalletAddress
          THEN Respond(q, ErrorResp(400, "Cannot send to backend wallet"))
        ELSE Call(q, "getBalance")

\* Mutant: the destination's syntax is not checked.
WithdrawValidateNoAddressCheck(toAddress, amountETH) ==
    LET q == [IdleReq EXCEPT !.ep = "withdraw", !.to = toAddress,
                             !.amountETH = amountETH]
    IN  IF ~Truthy(toAddress) \/ ~TruthyAmt(amountETH)
          THEN Respond(q, ErrorResp(400, "Missing parameters"))
        ELSE IF ToLowerCase(toAddress) = ToLowerCase(WalletAddress)
          THEN Respond(q, ErrorResp(400, "Cannot send to backend wallet"))
        ELSE Call(q, "getBalance")

\* Lines 28-45: validation up to the first await.
WithdrawValidate(toAddress, amountETH) ==
    LET q == [IdleReq EXCEPT !.ep = "withdraw", !.to = toAddress,
                             !.amountETH = amountETH]
    IN  IF ~Truthy(toAddress) \/ ~TruthyAmt(amountETH)
          THEN Respond(q, ErrorResp(400, "Missing parameters"))
        ELSE IF ~IsAddress(toAddress)
          THEN Respond(q, ErrorResp(400, "Invalid address"))
        ELSE IF ToLowerCase(toAddress) = ToLowerCase(WalletAddress)
          THEN Respond(q, ErrorResp(400, "Cannot send to backend wallet"))
        ELSE Call(q, "getBalance")

AmountInputs == {Falsy, Text, Dec(-1), Dec(10), Dec(17), Dec(20)}

Withdraw(r) ==
    /\ Arrives(r)
    /\ \E toAddress \in AddressInputs, amountETH \in AmountInputs :
          req' = [req EXCEPT ![r] = WithdrawValidate(toAddress, amountETH)]
    /\ UNCHANGED <<key, phase, earningsBalance, chainVars>>

\* The amounts of the /withdraw requests that passed their balance check and
\* are not answered yet.
InFlightAmounts ==
    LET inFlight == {s \in Reqs : /\ req[s].ep = "withdraw"
                                  /\ req[s].pc \notin {"idle", "getBalance", "done"}}
        f[S \in SUBSET inFlight] ==
            IF S = {} THEN 0
            ELSE LET s == CHOOSE x \in S : TRUE
                 IN  req[s].amountETH.v + f[S \ {s}]
    IN  f[inFlight]

\* Mutant: the check sets aside what the requests in flight are sending.
WithdrawCheckBalanceReserving(q, balance) ==
    LET balanceETH == FormatEther(balance - InFlightAmounts)
    IN  IF FLt(ParseFloat(balanceETH), ParseFloat(q.amountETH))
          THEN Respond(q, BalanceResp("Insufficient backend balance", balance))
          ELSE Call(q, "getFeeData")

\* Lines 45-56: the balance arrives; compare as floats, then ask for fee data.
WithdrawCheckBalance(q, balance) ==
    LET balanceETH == FormatEther(balance)
    IN  IF FLt(ParseFloat(balanceETH), ParseFloat(q.amountETH))
          THEN Respond(q, BalanceResp("Insufficient backend balance", balance))
          ELSE Call(q, "getFeeData")

\* The amount string handed to ethers.parseEther when the intent is built.
AmountString(q) ==
    IF q.ep = "withdraw" THEN q.amountETH ELSE FToString(q.ethAmount)

\* ------------------------------------------------ the treasury endpoints
\* Body fields of the treasury endpoints.
UsdInputs == {Falsy, Dec(69)}
TreasuryAmountInputs == {Falsy, Dec(10)}
PercentageInputs == {Falsy, Dec(50)}
TreasuryAddressInputs == {NoAddr, BadAddr, WalletAddress, Addr("T", "lower")}

\* parseFloat(amountUSD) / 3450, in units of 0.001 ETH.
UsdToEth(f) == IF f.nan THEN NaN ELSE Num(Fl((f.v * 1000) \div UsdPerEth))

\* balanceETH * parseFloat(percentage) / 100 - 0.002
PercentageOf(balanceETH, pct) ==
    IF balanceETH.nan \/ pct.nan THEN NaN
    ELSE Num(Fl(Fl(Fl(balanceETH.v * pct.v) \div 100) - GasBuffer))

\* balanceETH < ethAmount + 0.002
BelowRequired(balance, ethAmount) ==
    FLt(ParseFloat(FormatEther(balance)), FAdd(ethAmount, Num(GasBuffer)))

\* /convert-earnings-to-eth, lines 226-235.
ConvertValidate(amountETH, amountUSD, treasury, to, toAddress) ==
    LET destination == OrAddr(treasury, OrAddr(to, toAddress))
        ethAmount == FOr(ParseFloat(amountETH), UsdToEth(ParseFloat(amountUSD)))
        q == [IdleReq EXCEPT !.ep = "convert", !.to = destination,
                             !.ethAmount = ethAmount]
    IN  IF ~Truthy(destination)
          THEN Respond(q, ErrorResp(400, "Missing destination address"))
          ELSE Call(q, "getBalance")

\* Mutant: the conversion uses up the earnings it converts.
ConvertEarningsToEthDebits(r) ==
    /\ Arrives(r)
    /\ \E amountETH \in TreasuryAmountInputs, amountUSD \in UsdInputs,
          treasury \in TreasuryAddressInputs, to \in TreasuryAddressInputs,
          toAddress \in TreasuryAddressInputs :
          req' = [req EXCEPT ![r] =
                    ConvertValidate(amountETH, amountUSD, treasury, to, toAddress)]
    /\ earningsBalance' = 0
    /\ UNCHANGED <<key, phase, chainVars>>

ConvertEarningsToEth(r) ==
    /\ Arrives(r)
    /\ \E amountETH \in TreasuryAmountInputs, amountUSD \in UsdInputs,
          treasury \in TreasuryAddressInputs, to \in TreasuryAddressInputs,
          toAddress \in TreasuryAddressInputs :
          req' = [req EXCEPT ![r] =
                    ConvertValidate(amountETH, amountUSD, treasury, to, toAddress)]
    /\ UNCHANGED <<key, phase, earningsBalance, chainVars>>

\* Lines 235-247.
ConvertCheckBalance(q, balance) ==
    IF BelowRequired(balance, q.ethAmount)
      THEN Respond(q, BalanceResp("Insufficient backend balance for conversion",
                                  ParseFloat(FormatEther(balance)).v))
      ELSE Call(q, "getFeeData")

\* /fund-from-earnings, lines 287-291.
FundValidate(amountETH, amountUSD, treasury, to, toAddress) ==
    LET destination ==
            OrAddr(treasury, OrAddr(to, OrAddr(toAddress, WalletAddress)))
        ethAmount == FOr(ParseFloat(amountETH),
                         FOr(UsdToEth(ParseFloat(amountUSD)), Num(DefaultAmount)))
    IN  Call([IdleReq EXCEPT !.ep = "fund", !.to = destination,
                             !.ethAmount = ethAmount], "getBalance")

FundFromEarnings(r) ==
    /\ Arrives(r)
    /\ \E amountETH \in TreasuryAmountInputs, amountUSD \in UsdInputs,
          treasury \in TreasuryAddressInputs, to \in TreasuryAddressInputs,
          toAddress \in TreasuryAddressInputs :
          req' = [req EXCEPT ![r] =
                    FundValidate(amountETH, amountUSD, treasury, to, toAddress)]
    /\ UNCHANGED <<key, phase, earningsBalance, chainVars>>

\* Lines 291-301.
FundCheckBalance(q, balance) ==
    IF BelowRequired(balance, q.ethAmount)
      THEN Respond(q, BalanceResp("Insufficient backend balance",
                                  ParseFloat(FormatEther(balance)).v))
      ELSE Call(q, "getFeeData")

\* /withdraw-profits-to-treasury, lines 333-337.
TreasuryValidate(treasury, to, toAddress, amountETH, percentage) ==
    LET destination == OrAddr(treasury, OrAddr(to, toAddress))
    IN  Call([IdleReq EXCEPT !.ep = "treasury", !.to = destination,
                             !.amountETH = amountETH,
                             !.percentage = ParseFloat(percentage),
                             !.usesPercentage = TruthyAmt(percentage)],
             "getBalance")

WithdrawProfitsToTreasury(r) ==
    /\ Arrives(r)
    /\ \E treasury \in TreasuryAddressInputs, to \in TreasuryAddressInputs,
          toAddress \in TreasuryAddressInputs,
          amountETH \in TreasuryAmountInputs, percentage \in PercentageInputs :
          req' = [req EXCEPT ![r] =
                    TreasuryValidate(treasury, to, toAddress, amountETH, percentage)]
    /\ UNCHANGED <<key, phase, earningsBalance, chainVars>>

\* Lines 337-350: the amount is fixed, or a share of the balance just read.
TreasuryCheckBalance(q, balance) ==
    LET balanceETH == ParseFloat(FormatEther(balance))
        ethAmount == IF q.usesPercentage
                       THEN PercentageOf(balanceETH, q.percentage)
                       ELSE FOr(ParseFloat(q.amountETH), Num(DefaultAmount))
        q2 == [q EXCEPT !.ethAmount = ethAmount]
    IN  IF BelowRequired(balance, ethAmount)
          THEN Respond(q2, ErrorResp(400, "Insufficient balance"))
          ELSE Call(q2, "getFeeData")

\* /claim-mev-profits, lines 379-384.
ClaimValidate(to, toAddress, treasury, amountETH) ==
    LET destination == OrAddr(to, OrAddr(toAddress, treasury))
        ethAmount == FOr(ParseFloat(amountETH), Num(DefaultAmount))
    IN  Call([IdleReq EXCEPT !.ep = "claim", !.to = destination,
                             !.ethAmount = ethAmount], "getBalance")

ClaimMevProfits(r) ==
    /\ Arrives(r)
    /\ \E to \in TreasuryAddressInputs, toAddress \in TreasuryAddressInputs,
          treasury \in TreasuryAddressInputs, amountETH \in TreasuryAmountInputs :
          req' = [req EXCEPT ![r] = ClaimValidate(to, toAddress, treasury, amountETH)]
    /\ UNCHANGED <<key, phase, earningsBalance, chainVars>>

\* Lines 384-391.
ClaimCheckBalance(q, balance) ==
    IF BelowRequired(balance, q.ethAmount)
      THEN Respond(q, ErrorResp(400, "Insufficient balance"))
      ELSE Call(q, "getFeeData")

\* --------------------------------------------------------- /credit-earnings
\* Body field amountUSD of /credit-earnings.
CreditInputs == {Falsy, Text, Dec(4), Dec(5), Dec(-1)}

\* Mutant: the credit replaces the counter instead of adding to it.
CreditedOverwrites(counter, amountUSD) == FOr(ParseFloat(amountUSD), Num(0)).v

\* earningsBalance += parseFloat(amountUSD) || 0
Credited(counter, amountUSD) ==
    FAdd(Num(counter), FOr(ParseFloat(amountUSD), Num(0))).v

\* res.json({ success: true, newBalance: earningsBalance })
CreditAnswer(q, total) ==
    Respond(q, [NoResp EXCEPT !.status = 200,
                              !.body = [kind |-> "credit", newBalance |-> total]])

\* The value a handler would hold had it read the counter before the
\* request just ahead of it wrote its credit.
StaleCounter(r) ==
    IF r > 1 /\ req[r - 1].ep = "credit"
      THEN IF \E s \in 1..(r - 2) : req[s].ep = "credit"
             THEN LET t == CHOOSE s \in 1..(r - 2) :
                              /\ req[s].ep = "credit"
                              /\ \A u \in (s + 1)..(r - 2) : req[u].ep # "credit"
                  IN  req[t].resp.body.newBalance
             ELSE 0
      ELSE earningsBalance

\* Mutant: the read of the counter and the write are not one step; the
\* write puts back a sum made from a stale read.
CreditEarningsStale(r) ==
    /\ Arrives(r)
    /\ \E amountUSD \in CreditInputs :
          LET total == Credited(StaleCounter(r), amountUSD)
              q == [IdleReq EXCEPT !.ep = "credit", !.amountUSD = amountUSD]
          IN  /\ earningsBalance' = total
              /\ req' = [req EXCEPT ![r] = CreditAnswer(q, total)]
    /\ UNCHANGED <<key, phase, chainVars>>

\* Lines 212-221: the handler awaits nothing, it runs in one piece.
CreditEarnings(r) ==
    /\ Arrives(r)
    /\ \E amountUSD \in CreditInputs :
          LET total == Credited(earningsBalance, amountUSD)
              q == [IdleReq EXCEPT !.ep = "credit", !.amountUSD = amountUSD]
          IN  /\ earningsBalance' = total
              /\ req' = [req EXCEPT ![r] = CreditAnswer(q, total)]
    /\ UNCHANGED <<key, phase, chainVars>>

\* ---------------------------------------------------------------- /earnings
\* Lines 419-420: the handler has no try block.
Earnings(r) ==
    /\ Arrives(r)
    /\ req' = [req EXCEPT ![r] = Call([IdleReq EXCEPT !.ep = "earnings"], "getBalance")]
    /\ UNCHANGED <<key, phase, earningsBalance, chainVars>>

\* Lines 421-425.
EarningsAnswer(q, balance) ==
    Respond(q, [NoResp EXCEPT !.status = 200, !.balance = balance,
                              !.body = [kind |-> "earnings",
                                        earningsUSD |-> earningsBalance]])

\* ---------------------------------------------------------------- /balance
\* Line 162.
Balance(r) ==
    /\ Arrives(r)
    /\ req' = [req EXCEPT ![r] = Call([IdleReq EXCEPT !.ep = "balance"], "getBalance")]
    /\ UNCHANGED <<key, phase, earningsBalance, chainVars>>

\* Line 163: the balance arrived, ask for the transaction count.
BalanceAfterBalance(q, balance) == Call(q, "getTransactionCountLatest")

\* provider.getTransactionCount(wallet.address), without block tag: the
\* wallet's transactions included in blocks.
LatestCount == mined

\* Line 164.
GetLatestCountReturns(r) ==
    /\ phase = "listening"
    /\ req[r].pc = "getTransactionCountLatest"
    /\ req' = [req EXCEPT ![r] = Call([@ EXCEPT !.nonce = LatestCount], "getFeeData")]
    /\ UNCHANGED <<key, phase, earningsBalance, chainVars>>

\* Lines 166-171.
BalanceAnswer(q) ==
    Respond(q, [NoResp EXCEPT !.status = 200, !.balance = q.balance,
                              !.body = [kind |-> "balance", nonce |-> q.nonce,
                                        gasPrice |-> q.gasPrice]])

\* ------------------------------------------------------- /transaction/:hash
\* A transaction of another account, included in block 0 before the
\* service started, and the hash of no transaction at all.
ForeignHash == MaxReq + 1
UnknownHash == MaxReq + 2
ForeignTx ==
    [hash |-> ForeignHash, from |-> Addr("T", "checksum"),
     to |-> Addr("W", "checksum"), value |-> Dec(1), gasPrice |-> 1,
     nonce |-> 0, blockNumber |-> 0]

\* req.params.hash
HashInputs == Reqs \cup {ForeignHash, UnknownHash}

\* A block number that is null: the transaction waits in the pool.
NoBlock == 0 - 1

\* Where the node holds the wallet's transaction with hash h (0: nowhere).
IndexOf(h) ==
    IF \E i \in 1..Len(chainTxs) : chainTxs[i].hash = h
      THEN CHOOSE i \in 1..Len(chainTxs) : chainTxs[i].hash = h
      ELSE 0

\* provider.getTransaction(hash) and the fields the handler copies from it
\* (lines 136-144); null when the node does not know the hash.
TransactionOf(h) ==
    LET i == IndexOf(h)
    IN  IF h = ForeignHash THEN [kind |-> "tx", tx |-> ForeignTx]
        ELSE IF i = 0 THEN NoBody
        ELSE [kind |-> "tx",
              tx |-> [hash |-> h, from |-> WalletAddress,
                      to |-> chainTxs[i].tx.to,
                      value |-> FormatEther(chainTxs[i].tx.value),
                      gasPrice |-> chainTxs[i].tx.gasPrice,
                      nonce |-> chainTxs[i].tx.nonce,
                      blockNumber |-> IF i <= mined THEN blockOf[i] ELSE NoBlock]]

\* provider.getTransactionReceipt(hash): null until the transaction is in a
\* block; a plain transfer succeeds (status 1) and uses GasLimit gas.
ReceiptOf(h) ==
    LET i == IndexOf(h)
    IN  IF h = ForeignHash
          THEN [kind |-> "receipt", status |-> 1, blockNumber |-> 0,
                gasUsed |-> GasLimit]
        ELSE IF i = 0 \/ i > mined THEN NoBody
        ELSE [kind |-> "receipt", status |-> 1, blockNumber |-> blockOf[i],
              gasUsed |-> GasLimit]

\* Lines 131-133.
Transaction(r) ==
    /\ Arrives(r)
    /\ \E hash \in HashInputs :
          req' = [req EXCEPT ![r] =
                    Call([IdleReq EXCEPT !.ep = "transaction", !.hash = hash],
                         "getTransaction")]
    /\ UNCHANGED <<key, phase, earningsBalance, chainVars>>

\* Line 134.
GetTransactionReturns(r) ==
    /\ phase = "listening"
    /\ req[r].pc = "getTransaction"
    /\ req' = [req EXCEPT ![r] =
                 Call([@ EXCEPT !.found = TransactionOf(req[r].hash)],
                      "getTransactionReceipt")]
    /\ UNCHANGED <<key, phase, earningsBalance, chainVars>>

\* Lines 136-150: the JSON answer, with the confirmations count when there
\* is a receipt.
TransactionAnswer(q, confirmations) ==
    Respond(q, [NoResp EXCEPT
                  !.status = 200,
                  !.body = [kind |-> "transaction",
                            transaction |-> q.found,
                            receipt |-> IF q.receipt = NoBody THEN NoBody
                                        ELSE [status |-> q.receipt.status,
                                              blockNumber |-> q.receipt.blockNumber,
                                              gasUsed |-> q.receipt.gasUsed,
                                              confirmations |-> confirmations]]])

\* Lines 145-150: with a receipt the handler awaits receipt.confirmations()
\* while it builds the answer, without one it answers at once.
AfterReceipt(q) ==
    IF q.receipt = NoBody THEN TransactionAnswer(q, 0) ELSE Call(q, "confirmations")

GetTransactionReceiptReturns(r) ==
    /\ phase = "listening"
    /\ req[r].pc = "getTransactionReceipt"
    /\ req' = [req EXCEPT ![r] =
                 AfterReceipt([@ EXCEPT !.receipt = ReceiptOf(req[r].hash)])]
    /\ UNCHANGED <<key, phase, earningsBalance, chainVars>>

\* Mutant: the count leaves out the transaction's own block.
ConfirmationsAfter(receipt) == height - receipt.blockNumber

\* receipt.confirmations(): the blocks from the receipt's block to the
\* chain's newest block, both counted.
Confirmations(receipt) == height - receipt.blockNumber + 1

ConfirmationsReturns(r) ==
    /\ phase = "listening"
    /\ req[r].pc = "confirmations"
    /\ req' = [req EXCEPT ![r] = TransactionAnswer(@, Confirmations(@.receipt))]
    /\ UNCHANGED <<key, phase, earningsBalance, chainVars>>

\* ------------------------------------------------------------ /estimate-gas
EstimateAddressInputs == {BadAddr, Addr("T", "lower")}
EstimateAmountInputs == {Falsy, Text, Dec(10)}

\* Lines 181-187: amountETH.toString() and parseEther throw inside the try
\* block on an absent amount or on text that is no decimal number.
EstimateValidate(toAddress, amountETH) ==
    LET q == [IdleReq EXCEPT !.ep = "estimate", !.to = toAddress,
                             !.amountETH = amountETH]
    IN  IF ~ParseEtherOk(amountETH)
          THEN Catch(q, "parseEther")
          ELSE Call(q, "estimateGas")

EstimateGas(r) ==
    /\ Arrives(r)
    /\ \E toAddress \in EstimateAddressInputs, amountETH \in EstimateAmountInputs :
          req' = [req EXCEPT ![r] = EstimateValidate(toAddress, amountETH)]
    /\ UNCHANGED <<key, phase, earningsBalance, chainVars>>

\* Mutant: the estimate is made by sending the transfer.
EstimateGasSends(r) ==
    /\ phase = "listening"
    /\ req[r].pc = "estimateGas"
    /\ IsAddress(req[r].to)
    /\ chainBalance >= ParseEther(req[r].amountETH)
    /\ req' = [req EXCEPT ![r] = Call([@ EXCEPT !.tx.gasLimit = GasLimit], "getFeeData")]
    /\ chainBalance' = chainBalance - ParseEther(req[r].amountETH)
    /\ UNCHANGED <<key, phase, earningsBalance, chainTxs, mined, gasPriceNow,
                   height, blockOf>>

\* provider.estimateGas resolves: the node simulates the transfer, which
\* needs a destination it can resolve and a sender that can pay the value;
\* a plain transfer takes GasLimit gas.  Then line 189.
EstimateGasReturns(r) ==
    /\ phase = "listening"
    /\ req[r].pc = "estimateGas"
    /\ IsAddress(req[r].to)
    /\ chainBalance >= ParseEther(req[r].amountETH)
    /\ req' = [req EXCEPT ![r] = Call([@ EXCEPT !.tx.gasLimit = GasLimit], "getFeeData")]
    /\ UNCHANGED <<key, phase, earningsBalance, chainVars>>

\* Lines 190-197: gasCost = gasEstimate * feeData.gasPrice.
EstimateAnswer(q) ==
    LET gasCost == (q.tx.gasLimit * q.gasPrice) \div GasLimit
    IN  Respond(q, [NoResp EXCEPT
                      !.status = 200,
                      !.body = [kind |-> "estimate", gasLimit |-> q.tx.gasLimit,
                                gasPrice |-> q.gasPrice, totalCost |-> gasCost,
                                totalCostUSD |->
                                    Fl((ParseFloat(FormatEther(gasCost)).v
                                        * UsdPerEth) \div 1000)]])

\* ------------------------------------------------- steps shared by transfers
AfterBalance(q, balance) ==
    CASE q.ep = "withdraw" -> WithdrawCheckBalance(q, balance)
      [] q.ep = "convert" -> ConvertCheckBalance(q, balance)
      [] q.ep = "fund" -> FundCheckBalance(q, balance)
      [] q.ep = "treasury" -> TreasuryCheckBalance(q, balance)
      [] q.ep = "claim" -> ClaimCheckBalance(q, balance)
      [] q.ep = "earnings" -> EarningsAnswer(q, balance)
      [] q.ep = "balance" -> BalanceAfterBalance(q, balance)

\* provider.getBalance(wallet.address) resolves.
GetBalanceReturns(r) ==
    /\ phase = "listening"
    /\ req[r].pc = "getBalance"
    /\ req' = [req EXCEPT ![r] =
                 AfterBalance([@ EXCEPT !.balance = chainBalance], chainBalance)]
    /\ UNCHANGED <<key, phase, earningsBalance, chainVars>>

\* provider.getFeeData() resolves: a transfer handler asks for the pending
\* count, /balance and /estimate-gas answer.
AfterFeeData(q, price) ==
    LET q2 == [q EXCEPT !.gasPrice = price]
    IN  CASE q.ep = "balance" -> BalanceAnswer(q2)
          [] q.ep = "estimate" -> EstimateAnswer(q2)
          [] OTHER -> Call(q2, "getTransactionCount")

GetFeeDataReturns(r) ==
    /\ phase = "listening"
    /\ req[r].pc = "getFeeData"
    /\ req' = [req EXCEPT ![r] = AfterFeeData(@, gasPriceNow)]
    /\ UNCHANGED <<key, phase, earningsBalance, chainVars>>

\* provider.getTransactionCount(wallet.address, 'pending') at the node: the
\* mined transactions plus the ones waiting in its pool.
PendingCount == Len(chainTxs)

\* Mutant: the nonce is the one read when the process started.
BuildTxCachedNonce(q, nonce) ==
    [to |-> q.to, value |-> ParseEther(AmountString(q)), nonce |-> 0,
     gasLimit |-> GasLimit, gasPrice |-> q.gasPrice, chainId |-> ChainId]

\* The transaction object built from the request's own reads.
BuildTx(q, nonce) ==
    [to |-> q.to, value |-> ParseEther(AmountString(q)), nonce |-> nonce,
     gasLimit |-> GasLimit, gasPrice |-> q.gasPrice, chainId |-> ChainId]

\* The pending count arrives; build the intent (parseEther may throw) and
\* hand it to the signer.
AfterNonce(q, nonce) ==
    IF ~ParseEtherOk(AmountString(q))
      THEN Catch(q, "parseEther")
      ELSE Call([q EXCEPT !.tx = BuildTx(q, nonce)], "signTransaction")

\* Mutant: a request is given its nonce only while no other request holds
\* one it has not broadcast yet.
GetTransactionCountSerialized(r) ==
    /\ phase = "listening"
    /\ req[r].pc = "getTransactionCount"
    /\ \A s \in Reqs \ {r} :
          req[s].pc \notin {"signTransaction", "broadcastTransaction"}
    /\ req' = [req EXCEPT ![r] = AfterNonce(@, PendingCount)]
    /\ UNCHANGED <<key, phase, earningsBalance, chainVars>>

GetTransactionCountReturns(r) ==
    /\ phase = "listening"
    /\ req[r].pc = "getTransactionCount"
    /\ req' = [req EXCEPT ![r] = AfterNonce(@, PendingCount)]
    /\ UNCHANGED <<key, phase, earningsBalance, chainVars>>

\* wallet.signTransaction: resolves tx.to to an address when it is set (a
\* value that is no address is looked up as a name and rejected), and
\* serialises the value as an unsigned number.
SignSucceeds(tx) ==
    /\ Truthy(tx.to) => IsAddress(tx.to)
    /\ tx.value >= 0

AfterSign(q) ==
    IF SignSucceeds(q.tx)
      THEN Call([q EXCEPT !.signed = TRUE], "broadcastTransaction")
      ELSE Catch(q, "signTransaction")

SignTransactionReturns(r) ==
    /\ phase = "listening"
    /\ req[r].pc = "signTransaction"
    /\ req' = [req EXCEPT ![r] = AfterSign(@)]
    /\ UNCHANGED <<key, phase, earningsBalance, chainVars>>

\* ------------------------------------------------------------------ chain
\* What the node charges for a transaction.
Fee(tx) == (tx.gasLimit * tx.gasPrice) \div GasLimit
Cost(tx) == tx.value + Fee(tx)

\* The node takes a signed transaction into its pool: the sender can pay
\* for it, it is a plain transfer (a transaction without recipient creates
\* a contract, for which 21000 gas is too little), and its nonce is the next
\* free one, or that of a waiting transaction it outbids.
NodeAccepts(tx) ==
    /\ Truthy(tx.to)
    /\ chainBalance >= Cost(tx)
    /\ \/ tx.nonce = Len(chainTxs)
       \/ /\ tx.nonce >= mined
          /\ tx.nonce < Len(chainTxs)
          /\ tx.gasPrice > chainTxs[tx.nonce + 1].tx.gasPrice

Pooled(r, tx) == [hash |-> r, tx |-> tx]

AfterBroadcast(q) == Call(q, "wait")

\* provider.broadcastTransaction resolves: the node took the transaction.
BroadcastTransactionReturns(r) ==
    /\ phase = "listening"
    /\ req[r].pc = "broadcastTransaction"
    /\ NodeAccepts(req[r].tx)
    /\ chainTxs' = IF req[r].tx.nonce = Len(chainTxs)
                     THEN Append(chainTxs, Pooled(r, req[r].tx))
                     ELSE [chainTxs EXCEPT ![req[r].tx.nonce + 1] = Pooled(r, req[r].tx)]
    /\ req' = [req EXCEPT ![r] = AfterBroadcast(@)]
    /\ UNCHANGED <<key, phase, earningsBalance, chainBalance, mined, gasPriceNow,
                   height, blockOf>>

IsMined(h) == \E i \in 1..mined : chainTxs[i].hash = h

AfterWait(q, h) == Respond(q, SuccessResp(h))

\* Mutant: the wait resolves without a confirmation.
WaitReturnsUnconfirmed(r) ==
    /\ phase = "listening"
    /\ req[r].pc = "wait"
    /\ req' = [req EXCEPT ![r] = AfterWait(@, r)]
    /\ UNCHANGED <<key, phase, earningsBalance, chainVars>>

\* txResponse.wait(1) resolves: the transaction has one confirmation.
WaitReturns(r) ==
    /\ phase = "listening"
    /\ req[r].pc = "wait"
    /\ IsMined(r)
    /\ req' = [req EXCEPT ![r] = AfterWait(@, r)]
    /\ UNCHANGED <<key, phase, earningsBalance, chainVars>>

\* Mutant: a rejected broadcast is signed and sent once more.
AfterFailureRetry(q) ==
    IF q.pc = "broadcastTransaction" /\ Len(q.log) < 7
      THEN Call(q, "signTransaction")
      ELSE Catch(q, q.pc)

\* Mutant: a failed wait looks the transaction up before answering.
AfterFailureRequery(q) ==
    IF q.pc = "wait"
      THEN Call(q, "getTransactionReceipt")
      ELSE Catch(q, q.pc)

\* A call on the provider rejects (network error, node error, rejected or
\* replaced transaction, timeout upstream); the catch block answers 500.
AfterFailure(q) == Catch(q, q.pc)

CallFails(r) ==
    /\ phase = "listening"
    /\ req[r].pc \in ChainCalls
    /\ req[r].ep \in TransferEndpoints \cup QueryEndpoints
    /\ req' = [req EXCEPT ![r] = AfterFailure(@)]
    /\ UNCHANGED <<key, phase, earningsBalance, chainVars>>

\* The balance query of /earnings rejects: no catch block surrounds the
\* await, so the rejection leaves the handler.  What happens next is up to
\* the framework and the runtime: the request stays unanswered, the
\* unhandled rejection ends the process, or the framework's default error
\* handler answers with its own (non-JSON) error page.
EscapeOutcomes == {"unanswered", "exit", "errorPage"}

Escapes(q, outcome) ==
    IF outcome = "errorPage"
      THEN [q EXCEPT !.pc = "done", !.raised = TRUE,
                     !.resp = [NoResp EXCEPT !.status = 500, !.json = FALSE]]
      ELSE [q EXCEPT !.pc = "escaped", !.raised = TRUE]

EarningsCallFails(r) ==
    /\ phase = "listening"
    /\ req[r].pc = "getBalance"
    /\ req[r].ep = "earnings"
    /\ \E outcome \in EscapeOutcomes :
          /\ req' = [req EXCEPT ![r] = Escapes(@, outcome)]
          /\ phase' = IF outcome = "exit" THEN "crashed" ELSE phase
    /\ UNCHANGED <<key, earningsBalance, chainVars>>

\* The network includes the wallet's next waiting transaction in a new
\* block.
Mine ==
    /\ mined < Len(chainTxs)
    /\ chainBalance >= Cost(chainTxs[mined + 1].tx)
    /\ chainBalance' = chainBalance - Cost(chainTxs[mined + 1].tx)
    /\ mined' = mined + 1
    /\ height' = height + 1
    /\ blockOf' = Append(blockOf, height + 1)
    /\ UNCHANGED <<key, phase, req, earningsBalance, chainTxs, gasPriceNow>>

\* The network adds a block that holds no transaction of the wallet.
NewBlock ==
    /\ height < MaxHeight
    /\ height' = height + 1
    /\ UNCHANGED <<key, phase, req, earningsBalance, chainBalance, chainTxs, mined,
                   gasPriceNow, blockOf>>

\* The network's gas price moves.
GasPriceChanges ==
    /\ \E p \in GasPrices \ {gasPriceNow} : gasPriceNow' = p
    /\ UNCHANGED <<key, phase, req, earningsBalance, chainBalance, chainTxs, mined,
                   height, blockOf>>

Next ==
    \/ Startup
    \/ \E r \in Reqs :
          \/ Withdraw(r)
          \/ ConvertEarningsToEth(r)
          \/ FundFromEarnings(r)
          \/ WithdrawProfitsToTreasury(r)
          \/ ClaimMevProfits(r)
          \/ CreditEarnings(r)
          \/ Earnings(r)
          \/ Balance(r)
          \/ Transaction(r)
          \/ EstimateGas(r)
          \/ GetLatestCountReturns(r)
          \/ GetTransactionReturns(r)
          \/ GetTransactionReceiptReturns(r)
          \/ ConfirmationsReturns(r)
          \/ EstimateGasReturns(r)
          \/ EarningsCallFails(r)
          \/ GetBalanceReturns(r)
          \/ GetFeeDataReturns(r)
          \/ GetTransactionCountReturns(r)
          \/ SignTransactionReturns(r)
          \/ BroadcastTransactionReturns(r)
          \/ WaitReturns(r)
          \/ CallFails(r)
    \/ Mine
    \/ GasPriceChanges

Spec == Init /\ [][Next]_vars

\* The service receiving /withdraw requests only.
WithdrawNext ==
    \/ Startup
    \/ \E r \in Reqs :
          \/ Withdraw(r)
          \/ GetBalanceReturns(r)
          \/ GetFeeDataReturns(r)
          \/ GetTransactionCountReturns(r)
          \/ SignTransactionReturns(r)
          \/ BroadcastTransactionReturns(r)
          \/ WaitReturns(r)
          \/ CallFails(r)
    \/ Mine
    \/ GasPriceChanges

WithdrawSpec == Init /\ [][WithdrawNext]_vars

\* The service receiving status queries only, while the chain grows.
QueryNext ==
    \/ Startup
    \/ \E r \in Reqs :
          \/ Transaction(r)
          \/ GetTransactionReturns(r)
          \/ GetTransactionReceiptReturns(r)
          \/ ConfirmationsReturns(r)
          \/ CallFails(r)
    \/ NewBlock
    \/ GasPriceChanges

QuerySpec == Init /\ [][QueryNext]_vars

\* The service receiving requests to the earnings ledger only.
LedgerNext ==
    \/ Startup
    \/ \E r \in Reqs :
          \/ CreditEarnings(r)
          \/ Earnings(r)
          \/ GetBalanceReturns(r)
          \/ EarningsCallFails(r)

LedgerSpec == Init /\ [][LedgerNext]_vars

\* ================================================================= claims
Count(seq, x) == Cardinality({i \in 1..Len(seq) : seq[i] = x})
Last(seq) == seq[Len(seq)]
Called(q, name) == \E i \in 1..Len(q.log) : q.log[i] = name

IsSelf(a) == ToLowerCase(a) = ToLowerCase(WalletAddress)

\* A /withdraw request that passed the three checks made before the balance
\* query: parameters present, destination valid and not the wallet itself.
PassedValidation(q) ==
    /\ q.ep = "withdraw"
    /\ Truthy(q.to) /\ TruthyAmt(q.amountETH)
    /\ IsAddress(q.to)
    /\ ~IsSelf(q.to)

\* C1: every valid /withdraw request that read a wallet balance smaller than
\* the amount it asks for is answered 400 'Insufficient backend balance'
\* with the balance it read, and nothing is signed or broadcast for it.
C1_InsufficientBalanceRejected ==
    \A r \in Reqs :
        LET q == req[r]
        IN  ( /\ PassedValidation(q)
              /\ q.amountETH.txt = "dec"
              /\ q.balance >= 0
              /\ q.balance < q.amountETH.v )
            => /\ q.resp = BalanceResp("Insufficient backend balance", q.balance)
               /\ ~Called(q, "signTransaction")
               /\ ~Called(q, "broadcastTransaction")

\* C2 as stated: every /withdraw request whose destination is the wallet's
\* own address (ignoring case) is answered 400 'Cannot send to backend
\* wallet' with no balance query, signature or broadcast.
C2_SelfTransferRejected_AsStated ==
    \A r \in Reqs :
        LET q == req[r]
        IN  (q.ep = "withdraw" /\ IsSelf(q.to))
            => /\ q.resp = ErrorResp(400, "Cannot send to backend wallet")
               /\ q.log = <<>>

\* C2 (amended): no /withdraw request whose destination is the wallet's own
\* address (ignoring case) makes any call: no balance query, no signature,
\* no broadcast; it is answered 400, and when its amount is present and the
\* destination is a valid spelling of the address the answer is 'Cannot
\* send to backend wallet'.
C2_SelfTransferRejected ==
    \A r \in Reqs :
        LET q == req[r]
        IN  (q.ep = "withdraw" /\ IsSelf(q.to))
            => /\ q.pc = "done"
               /\ q.resp.status = 400
               /\ q.log = <<>>
               /\ ~q.signed
               /\ (TruthyAmt(q.amountETH) /\ IsAddress(q.to))
                  => q.resp = ErrorResp(400, "Cannot send to backend wallet")

C2_Witness ==
    \E r \in Reqs :
        /\ req[r].ep = "withdraw"
        /\ req[r].to = Addr("W", "lower")
        /\ req[r].amountETH = Dec(10)
        /\ req[r].resp.error = "Cannot send to backend wallet"

\* C3: every /withdraw request whose destination is missing or no valid
\* address, or whose amount is missing, is answered 400 (InvalidRequest) and
\* makes no call on the chain client.
C3_InvalidRequestNoChainCall ==
    \A r \in Reqs :
        LET q == req[r]
        IN  ( /\ q.ep = "withdraw"
              /\ (~Truthy(q.to) \/ ~IsAddress(q.to) \/ ~TruthyAmt(q.amountETH)) )
            => /\ q.pc = "done"
               /\ q.resp.status = 400
               /\ q.resp.error \in {"Missing parameters", "Invalid address"}
               /\ q.log = <<>>

C3_Witness ==
    \E r \in Reqs :
        /\ req[r].ep = "withdraw"
        /\ req[r].to = BadAddr
        /\ req[r].resp = ErrorResp(400, "Invalid address")
        /\ req[r].log = <<>>

\* C4: nothing serialises the nonce read with signing and broadcasting: a
\* request waiting for the pending count is never held back by another
\* request, and the nonce it puts in its transaction is the node's pending
\* count at that moment, whatever nonces other requests hold unsent.
C4_NonceNotSerialized ==
    /\ [](\A r \in Reqs :
            (phase = "listening" /\ req[r].pc = "getTransactionCount")
            => ENABLED GetTransactionCountReturns(r))
    /\ [][\A r \in Reqs :
            (req[r].pc = "getTransactionCount" /\ req'[r].pc = "signTransaction")
            => req'[r].tx.nonce = PendingCount]_vars

\* Two requests read the same nonce before either broadcast, and both are
\* broadcasting a signed transaction that carries it.
C4_Witness ==
    \E r, s \in Reqs :
        /\ r # s
        /\ req[r].signed /\ req[s].signed
        /\ req[r].tx.nonce = req[s].tx.nonce
        /\ req[r].pc = "broadcastTransaction"
        /\ req[s].pc = "broadcastTransaction"

\* C5: no transfer endpoint signs a transaction whose destination is absent,
\* no valid address, or the wallet's own address.
C5_TransfersObeyPreconditions ==
    \A r \in Reqs :
        LET q == req[r]
        IN  (q.ep \in TransferEndpoints /\ q.signed)
            => /\ Truthy(q.tx.to)
               /\ IsAddress(q.tx.to)
               /\ ~IsSelf(q.tx.to)

\* C6: without a usable private key the service never listens: no request
\* is accepted and the node never sees a transaction.
C6_NoKeyNoService ==
    key # "valid"
    => /\ phase # "listening"
       /\ \A r \in Reqs : req[r] = IdleReq
       /\ chainTxs = <<>>

C6_Witness == key = "absent" /\ phase = "crashed"

\* C7: a /withdraw success is answered only after the intent was signed,
\* then broadcast, then confirmed: the calls were made in that order, and
\* the request's own transaction is in a block.
C7_SuccessAfterConfirmation ==
    \A r \in Reqs :
        LET q == req[r]
        IN  (q.ep = "withdraw" /\ q.resp.status = 200)
            => /\ q.log = <<"getBalance", "getFeeData", "getTransactionCount",
                            "signTransaction", "broadcastTransaction", "wait">>
               /\ q.signed
               /\ \E i \in 1..mined : chainTxs[i] = Pooled(r, q.tx)
               /\ q.resp.hash = r

C7_Witness ==
    \E r \in Reqs : req[r].ep = "withdraw" /\ req[r].resp.status = 200

\* C8: a /withdraw request signs at most once and broadcasts at most once; a
\* failure of signing, broadcast or the wait answers 500 with the failure's
\* message, the failed call being the request's last; an answered request
\* makes no further call.
C8_NoRetry ==
    /\ [](\A r \in Reqs :
            LET q == req[r]
            IN  q.ep = "withdraw"
                => /\ Count(q.log, "signTransaction") <= 1
                   /\ Count(q.log, "broadcastTransaction") <= 1
                   /\ q.raised => /\ q.pc = "done"
                                  /\ q.resp.status = 500
                   /\ q.resp.error \in {"signTransaction", "broadcastTransaction", "wait"}
                      => /\ q.resp.status = 500
                         /\ Last(q.log) = q.resp.error)
    /\ [][\A r \in Reqs : req[r].pc = "done" => req'[r] = req[r]]_vars

C8_Witness ==
    \E r \in Reqs :
        /\ req[r].ep = "withdraw"
        /\ req[r].resp = ErrorResp(500, "broadcastTransaction")
        /\ req[r].signed

\* C9: a confirmation wait ends only by answering the caller: with success
\* once the transaction is in a block, otherwise with a 500 error; the
\* failing wait takes no recovery step (no further call, the node's pool is
\* left as it is), so the transaction stays with the node and can confirm.
C9_WaitFailureNoRecovery ==
    [][\A r \in Reqs :
         (req[r].ep = "withdraw" /\ req[r].pc = "wait" /\ req'[r] # req[r])
         => /\ req'[r].pc = "done"
            /\ req'[r].log = req[r].log
            /\ chainTxs' = chainTxs
            /\ \/ req'[r].resp = SuccessResp(r) /\ IsMined(r)
               \/ req'[r].resp = ErrorResp(500, "wait")]_vars

\* The request was answered with the failure of its wait and its transaction
\* is confirmed.
C9_Witness ==
    \E r \in Reqs :
        /\ req[r].ep = "withdraw"
        /\ req[r].resp = ErrorResp(500, "wait")
        /\ IsMined(r)

\* The credits of the requests in S, as the numbers their amountUSD fields
\* denote (no number: 0).
CreditedAmount(q) ==
    IF q.ep = "credit" /\ q.amountUSD.txt = "dec" THEN q.amountUSD.v ELSE 0

RECURSIVE SumCredits(_)
SumCredits(S) ==
    IF S = {} THEN 0
    ELSE LET r == CHOOSE x \in S : TRUE
         IN  CreditedAmount(req[r]) + SumCredits(S \ {r})

\* C10: every error raised while a request is handled is answered with a
\* JSON error body and an HTTP error status.
C10_ErrorsAnswered ==
    \A r \in Reqs :
        req[r].raised
        => /\ req[r].pc = "done"
           /\ req[r].resp.json
           /\ req[r].resp.status >= 400

\* The total of the credits of the requests 1..k as the counter's arithmetic
\* gives it: added one by one in the order the requests were handled, each
\* sum rounded to the nearest float.
RECURSIVE FloatSumCredits(_)
FloatSumCredits(k) ==
    IF k = 0 THEN 0 ELSE Fl(FloatSumCredits(k - 1) + CreditedAmount(req[k]))

\* C11 as stated: the earnings counter equals the sum of the credited
\* amounts (an amount that is no number counts 0); every credit answers
\* with the total up to and including itself; every /earnings answer reports
\* a value of the counter (the total of the credits handled by then),
\* whatever balance it read.
C11_CounterIsSumOfCredits_AsStated ==
    /\ earningsBalance = SumCredits(Reqs)
    /\ \A r \in Reqs :
          LET q == req[r]
          IN  /\ q.ep = "credit"
                 => /\ q.resp.status = 200
                    /\ q.resp.body = [kind |-> "credit",
                                      newBalance |-> SumCredits(1..r)]
              /\ (q.ep = "earnings" /\ q.resp.status = 200)
                 => \E k \in (r - 1)..MaxReq :
                       q.resp.body = [kind |-> "earnings",
                                      earningsUSD |-> SumCredits(1..k)]

\* C11 (amended): the earnings counter equals the floating-point sum of the
\* credited amounts, added in the order the credits were handled (an amount
\* that is no number counts 0); every credit answers with that total up to
\* and including itself; every /earnings answer reports a value of the
\* counter, whatever balance it read.
C11_CounterIsSumOfCredits ==
    /\ earningsBalance = FloatSumCredits(MaxReq)
    /\ \A r \in Reqs :
          LET q == req[r]
          IN  /\ q.ep = "credit"
                 => /\ q.resp.status = 200
                    /\ q.resp.body = [kind |-> "credit",
                                      newBalance |-> FloatSumCredits(r)]
              /\ (q.ep = "earnings" /\ q.resp.status = 200)
                 => \E k \in (r - 1)..MaxReq :
                       q.resp.body = [kind |-> "earnings",
                                      earningsUSD |-> FloatSumCredits(k)]

\* A credit of 5 was answered with the total 5 and a later /earnings
\* request, which read a balance of 0, reports 5.
C11_Witness ==
    \E r, s \in Reqs :
        /\ req[r].ep = "credit" /\ req[r].amountUSD = Dec(5)
        /\ req[r].resp.body.newBalance = 5
        /\ req[s].ep = "earnings" /\ req[s].resp.status = 200
        /\ req[s].resp.balance = 0
        /\ req[s].resp.body.earningsUSD = 5

\* C12: the earnings counter is at least 0 in every reachable state and
\* never decreases: the total a credit answers with is at least 0 and at
\* least the total every earlier credit answered with, whatever amountUSD
\* the requests carry.
C12_CounterNeverDecreases ==
    /\ earningsBalance >= 0
    /\ \A r \in Reqs :
          req[r].ep = "credit"
          => /\ req[r].resp.body.newBalance >= 0
             /\ \A s \in 1..(r - 1) :
                   req[s].ep = "credit"
                   => req[s].resp.body.newBalance <= req[r].resp.body.newBalance

\* C13: no step of a transfer request (/withdraw or one of the four treasury
\* variants: its arrival, its rejection, every return or failure of a call,
\* its success) changes the earnings counter; the counter changes only in
\* the step that handles a /credit-earnings request.
C13_TransfersLeaveCounter ==
    /\ [][\A r \in Reqs :
            (req'[r] # req[r] /\ req'[r].ep \in TransferEndpoints)
            => earningsBalance' = earningsBalance]_vars
    /\ [][earningsBalance' # earningsBalance
          => \E r \in Reqs : req[r].pc = "idle" /\ req'[r].ep = "credit"]_vars

\* A conversion succeeded after a credit and the credit is still counted.
C13_Witness ==
    \E r, s \in Reqs :
        /\ req[s].ep = "credit" /\ req[s].amountUSD = Dec(5)
        /\ req[r].ep = "convert" /\ req[r].resp.status = 200
        /\ earningsBalance = 5

\* C14: a request to GET /balance, GET /transaction/:hash or POST
\* /estimate-gas never signs and never broadcasts (none of its calls is a
\* signature or a broadcast, the node holds no transaction of it), and no
\* step of it changes the earnings counter, the wallet's balance on the
\* chain, or the wallet's pending or mined transactions (its nonce),
\* whatever the other requests do meanwhile.
C14_QueriesChangeNothing ==
    /\ [](\A r \in Reqs :
            req[r].ep \in QueryEndpoints
            => /\ ~req[r].signed
               /\ ~Called(req[r], "signTransaction")
               /\ ~Called(req[r], "broadcastTransaction")
               /\ \A i \in 1..Len(chainTxs) : chainTxs[i].hash # r)
    /\ [][\A r \in Reqs :
            (req'[r] # req[r] /\ req'[r].ep \in QueryEndpoints)
            => /\ earningsBalance' = earningsBalance
               /\ chainBalance' = chainBalance
               /\ chainTxs' = chainTxs
               /\ mined' = mined]_vars

\* An estimate was answered while a /withdraw request of the same run has
\* its transaction waiting at the node.
C14_Witness ==
    \E r, s \in Reqs :
        /\ req[r].ep = "estimate" /\ req[r].resp.status = 200
        /\ req[s].ep = "withdraw" /\ req[s].pc = "wait"
        /\ Len(chainTxs) = 1 /\ mined = 0

\* Request r is an answered status query of a hash that was confirmed when
\* it was looked up.
AnsweredConfirmed(r) ==
    /\ req[r].ep = "transaction"
    /\ req[r].resp.status = 200
    /\ req[r].resp.body.transaction # NoBody
    /\ req[r].resp.body.transaction.tx.blockNumber # NoBlock
    /\ req[r].resp.body.receipt # NoBody

\* C15 as stated: two answered status queries of the same confirmed hash
\* carry identical transaction and receipt content, also when blocks were
\* added between them.
C15_StatusIdempotent_AsStated ==
    \A r, s \in Reqs :
        (AnsweredConfirmed(r) /\ AnsweredConfirmed(s) /\ req[r].hash = req[s].hash)
        => /\ req[r].resp.body.transaction = req[s].resp.body.transaction
           /\ req[r].resp.body.receipt = req[s].resp.body.receipt

\* C15 (amended): two answered status queries of the same confirmed hash
\* carry identical transaction content and identical receipt status, block
\* number and gas used; the receipt's confirmations count is the number of
\* blocks from the transaction's block to the chain's newest block at the
\* time of the answer, so it is the same in both only when no block was
\* added between them.
C15_StatusIdempotent ==
    /\ [](\A r, s \in Reqs :
            (AnsweredConfirmed(r) /\ AnsweredConfirmed(s)
             /\ req[r].hash = req[s].hash)
            => LET a == req[r].resp.body
                   b == req[s].resp.body
               IN  /\ a.transaction = b.transaction
                   /\ a.receipt.status = b.receipt.status
                   /\ a.receipt.blockNumber = b.receipt.blockNumber
                   /\ a.receipt.gasUsed = b.receipt.gasUsed
                   /\ a.receipt.confirmations >= 1
                   /\ a.receipt.confirmations <= height - a.receipt.blockNumber + 1)
    /\ [][\A r \in Reqs :
            (req[r].pc = "confirmations" /\ req'[r].resp.status = 200)
            => req'[r].resp.body.receipt.confirmations
                  = height - req[r].receipt.blockNumber + 1]_vars

\* Two answers for the same confirmed hash whose confirmations differ.
C15_Witness ==
    \E r, s \in Reqs :
        /\ AnsweredConfirmed(r) /\ AnsweredConfirmed(s)
        /\ req[r].hash = ForeignHash /\ req[s].hash = ForeignHash
        /\ req[r].resp.body.receipt.confirmations = 1
        /\ req[s].resp.body.receipt.confirmations > 1

\* C16 as stated: a credit is handled in one step (no credit request is ever
\* suspended between reading and writing the counter), and after any
\* interleaving of credits with other requests the counter equals the sum of
\* all credited amounts.
C16_NoLostCredit_AsStated ==
    /\ \A r \in Reqs : req[r].ep = "credit" => req[r].pc = "done"
    /\ (\A s \in Reqs : req[s].pc # "idle") => earningsBalance = SumCredits(Reqs)

\* C16 (amended): a credit is handled in one step: the step that takes a
\* /credit-earnings request adds its amount to the value the counter has in
\* that very state and answers; no credit request is ever suspended.  So
\* after any interleaving of credits with other requests the counter equals
\* the floating-point sum of all credited amounts in the order the credits
\* were handled.
C16_NoLostCredit ==
    /\ [](\A r \in Reqs : req[r].ep = "credit" => req[r].pc = "done")
    /\ [](earningsBalance = FloatSumCredits(MaxReq))
    /\ [][\A r \in Reqs :
            (req[r].pc = "idle" /\ req'[r].ep = "credit")
            => /\ earningsBalance'
                    = Fl(earningsBalance + CreditedAmount(req'[r]))
               /\ req'[r].pc = "done"
               /\ req'[r].resp.body.newBalance = earningsBalance']_vars

\* A credit of 5 was handled and counted while an earlier request was
\* suspended waiting for the chain client.
C16_Witness ==
    \E r, s \in Reqs :
        /\ r < s
        /\ req[r].ep = "earnings" /\ req[r].pc = "getBalance"
        /\ req[s].ep = "credit" /\ req[s].amountUSD = Dec(5)
        /\ earningsBalance = 5

\* C17: every transaction the node holds was broadcast by a transfer
\* request and is that request's own intent, with gas limit 21000, chain id
\* 1 and the gas price the request holds from its own fee-data read; the
\* request made its calls in the order balance, fee data, pending count,
\* signature, broadcast and never asked for a gas estimate.  The gas price a
\* transfer request takes from its fee-data read is the node's price at
\* that moment, and the nonce it puts in its intent is the node's pending
\* count at the moment its count read returns: nothing is carried over from
\* another request.
C17_FreshIntent ==
    /\ [](\A i \in 1..Len(chainTxs) :
            LET q == req[chainTxs[i].hash]
            IN  /\ q.ep \in TransferEndpoints
                /\ chainTxs[i].tx = q.tx
                /\ q.tx.gasLimit = 21000
                /\ q.tx.chainId = 1
                /\ q.tx.gasPrice = q.gasPrice
                /\ q.balance >= 0
                /\ SubSeq(q.log, 1, 5) = <<"getBalance", "getFeeData",
                                           "getTransactionCount",
                                           "signTransaction",
                                           "broadcastTransaction">>
                /\ ~Called(q, "estimateGas"))
    /\ [][\A r \in Reqs :
            (req[r].ep \in TransferEndpoints /\ req[r].pc = "getFeeData"
             /\ req'[r].pc = "getTransactionCount")
            => req'[r].gasPrice = gasPriceNow]_vars
    /\ [][\A r \in Reqs :
            (req[r].ep \in TransferEndpoints /\ req[r].pc = "getTransactionCount"
             /\ req'[r].pc = "signTransaction")
            => /\ req'[r].tx.nonce = Len(chainTxs)
               /\ req'[r].tx.gasPrice = req[r].gasPrice]_vars

\* The node holds two transactions; the second is a conversion's, with the
\* nonce 1 and a gas price other than the first one's.
C17_Witness ==
    /\ Len(chainTxs) = 2
    /\ req[chainTxs[2].hash].ep = "convert"
    /\ chainTxs[2].tx.nonce = 1
    /\ chainTxs[2].tx.gasPrice # chainTxs[1].tx.gasPrice

\* A step that ends the call request r awaits: the call returns or fails.
CallCompletes(r) ==
    \/ GetBalanceReturns(r)
    \/ GetFeeDataReturns(r)
    \/ GetTransactionCountReturns(r)
    \/ SignTransactionReturns(r)
    \/ BroadcastTransactionReturns(r)
    \/ WaitReturns(r)
    \/ CallFails(r)

\* C18: every /withdraw request receives exactly one response.  Until it is
\* answered it has no response and awaits a call whose return or failure
\* moves its handler on, and its handler makes at most six calls: so it
\* is answered (with status 200, 400 or 500) if every call eventually
\* returns or fails.  An answered request is never answered again.  A
\* request waiting for its confirmation changes only when the wait itself
\* ends (there is no timeout and no cancellation).
C18_ExactlyOneResponse ==
    /\ [](\A r \in Reqs :
            req[r].ep = "withdraw"
            => \/ /\ req[r].pc = "done"
                  /\ req[r].resp.status \in {200, 400, 500}
               \/ /\ req[r].pc # "done"
                  /\ req[r].resp = NoResp
                  /\ Len(req[r].log) <= 6
                  /\ ENABLED CallCompletes(r))
    /\ [][\A r \in Reqs :
            (req[r].ep = "withdraw" /\ req[r].pc = "done") => req'[r] = req[r]]_vars
    /\ [][\A r \in Reqs :
            (req[r].ep = "withdraw" /\ req[r].pc = "wait" /\ req'[r] # req[r])
            => (WaitReturns(r) \/ CallFails(r))]_vars

\* C19: the balance check of /withdraw is not atomic with the broadcast.  A
\* request's balance read is never held back by the transfers other
\* requests have in flight, and its check passes exactly when the balance
\* the chain reports at that moment is not below its own amount: nothing is
\* set aside for transfers that passed their check and are not confirmed.
\* So two requests with amounts that the balance covers one by one but not
\* together can both pass and both be broadcast (the witness).
C19_CheckNotAtomic ==
    /\ [](\A r \in Reqs :
            (phase = "listening" /\ req[r].ep = "withdraw"
             /\ req[r].pc = "getBalance")
            => ENABLED GetBalanceReturns(r))
    /\ [][\A r \in Reqs :
            (req[r].ep = "withdraw" /\ req[r].pc = "getBalance"
             /\ req'[r] # req[r] /\ ~req'[r].raised)
            => /\ req'[r].balance = chainBalance
               /\ req'[r].pc = "getFeeData"
                  <=> ~FLt(ParseFloat(FormatEther(chainBalance)),
                           ParseFloat(req[r].amountETH))]_vars

\* The node holds the unconfirmed transfers of two /withdraw requests; each
\* amount is at most the wallet's balance, their sum is more.
C19_Witness ==
    \E r, s \in Reqs :
        /\ r # s
        /\ req[r].ep = "withdraw" /\ req[s].ep = "withdraw"
        /\ req[r].pc = "wait" /\ req[s].pc = "wait"
        /\ mined = 0 /\ Len(chainTxs) = 2
        /\ {chainTxs[1].hash, chainTxs[2].hash} = {r, s}
        /\ req[r].tx.value <= chainBalance /\ req[s].tx.value <= chainBalance
        /\ req[r].tx.value + req[s].tx.value > chainBalance

\* C20: every transaction intent a /withdraw request hands to the signer is
\* well-formed: its destination is a valid address and its value is not
\* negative, whatever the request body that passed the checks.
C20_IntentWellFormed ==
    \A r \in Reqs :
        (req[r].ep = "withdraw" /\ Called(req[r], "signTransaction"))
        => /\ Truthy(req[r].tx.to)
           /\ IsAddress(req[r].tx.to)
           /\ req[r].tx.value >= 0

====
